---- MODULE Spec2Model ----
(***************************************************************************)
(* A model of kriasoft/oauth-callback: the loopback callback server        *)
(* (BaseCallbackServer / NodeCallbackServer), the authorization capture    *)
(* function getAuthCode, and the MCP provider BrowserOAuthProvider.        *)
(*                                                                         *)
(* JavaScript runs one task at a time.  A task (an incoming request, a     *)
(* timer callback, the close callback of the HTTP server) runs only when   *)
(* the microtask queue is empty; the continuation of an `await` is a       *)
(* microtask.  Code of the caller, however, may call into the object       *)
(* synchronously at any point, also between the settlement of a promise    *)
(* and the continuation that awaits it.  The model therefore has one       *)
(* action per synchronous section, task actions guarded by NoMicrotask,    *)
(* and caller actions that are not.                                        *)
(***************************************************************************)
EXTENDS Integers, Sequences, FiniteSets, TLC

(***************************************************************************)
(* Bounds of the model.                                                    *)
(***************************************************************************)
MaxCalls == 3

CallIds == 1 .. MaxCalls

Paths == {"/callback", "/other"}

NoCall == 0

Absent == "<absent>"

(***************************************************************************)
(* Query strings of the requests the model sends.  A parameter that is     *)
(* present with an empty value ("?error=") is the empty string, as         *)
(* URLSearchParams yields it.                                              *)
(***************************************************************************)
MkParams(code, state, error, desc, uri) ==
    [code |-> code, state |-> state, error |-> error, error_description |-> desc,
     error_uri |-> uri]

Queries ==
    { MkParams("abc123", "s1", Absent, Absent, Absent),
      MkParams(Absent, Absent, "access_denied", "User declined", "https://auth.example/err"),
      MkParams(Absent, "s1", "", "User declined", Absent),
      MkParams(Absent, Absent, Absent, Absent, Absent) }

\* The requests sent to a server that is used directly.
ServerQueries ==
    { MkParams("abc123", "s1", Absent, Absent, Absent),
      MkParams(Absent, Absent, "access_denied", "User declined", "https://auth.example/err") }

(***************************************************************************)
(* Outcomes of a waitForCallback promise.                                  *)
(***************************************************************************)
NoOutcome == [kind |-> "none"]

Resolved(q) == [kind |-> "resolved", params |-> q]

TimeoutError == [kind |-> "rejected", message |-> "OAuth callback timeout"]

StoppedError == [kind |-> "rejected", message |-> "Server stopped before callback received"]

ActiveError == [kind |-> "rejected", message |-> "A listener for the path is already active."]

AbortedError == [kind |-> "rejected", message |-> "Operation aborted"]

(***************************************************************************)
(* BrowserOAuthProvider: bounds and data.  An optional number (expires_in, *)
(* expiresAt) is the empty tuple when undefined and <<n>> otherwise.       *)
(***************************************************************************)
MaxTokensCalls == 2

MaxAuthCalls == 2

MaxTicks == 2

StartMs == 1000000

TickMs == 30000

TokensIds == 1 .. MaxTokensCalls

AuthIds == 1 .. MaxAuthCalls

StoreKey == "mcp-tokens"

\* The storeKey of a second provider that shares the store.
OtherKey == "app2-tokens"

StoreKeys == {StoreKey, OtherKey}

NoNumber == << >>

Num(n) == <<n>>

\* JavaScript truthiness of an optional number: neither undefined nor 0.
TruthyNum(e) == e # NoNumber /\ e[1] # 0

\* OAuthTokens, the SDK's token response.
MkTokens(a, r, e, s) ==
    [access_token |-> a, refresh_token |-> r, expires_in |-> e, scope |-> s]

NoTokens == MkTokens(Absent, Absent, NoNumber, Absent)

TokenInputs ==
    { MkTokens("at1", "rt1", Num(90), "read"),
      MkTokens("at2", Absent, Num(90), Absent),
      MkTokens("at3", Absent, NoNumber, Absent) }

\* Tokens, the persisted form.
MkStored(a, r, x, s) ==
    [accessToken |-> a, refreshToken |-> r, expiresAt |-> x, scope |-> s]

NullTokens == MkStored(Absent, Absent, NoNumber, Absent)

\* OAuthClientInformationFull and its persisted form ClientInfo.
MkClient(id, secret) == [client_id |-> id, client_secret |-> secret]

NoClient == MkClient(Absent, Absent)

ClientInputs == { MkClient("dyn1", "sec1") }

MkStoredClient(id, secret) == [clientId |-> id, clientSecret |-> secret]

NullClient == MkStoredClient(Absent, Absent)

\* OAuthSession; `exists` is FALSE for null.
MkSession(v, st) == [exists |-> TRUE, codeVerifier |-> v, state |-> st]

NullSession == [exists |-> FALSE, codeVerifier |-> Absent, state |-> Absent]

Verifiers == {"v1"}

\* The 60 s safety buffer of tokens().
BufferMs == 60000

\* _doAuthorization: const maxRetries = 2.
maxRetries == 2

EmptyStore ==
    [tokens |-> [k \in StoreKeys |-> NullTokens],
     client |-> [k \in StoreKeys |-> NullClient],
     session |-> [k \in StoreKeys |-> NullSession]]

\* What an earlier run of the program has left in a persistent store.
EarlierStore(ext) ==
    [tokens |-> [k \in StoreKeys |->
                   IF k = StoreKey THEN MkStored("at0", "rt0", Num(StartMs + 90000), "read")
                                   ELSE NullTokens],
     client |-> [k \in StoreKeys |->
                   IF ext /\ k = StoreKey THEN MkStoredClient("dyn0", "sec0") ELSE NullClient],
     session |-> [k \in StoreKeys |->
                   IF ext /\ k = StoreKey THEN MkSession("v0", "s0") ELSE NullSession]]

\* A store shared with a second provider, which has saved its tokens under
\* its own key.
SharedStore ==
    [EmptyStore EXCEPT !.tokens[OtherKey] = MkStored("at9", "rt9", NoNumber, "read")]

\* The operations of a fileStore: what is asked, and the content of the file
\* as the operation has read it.
MaxFileOps == 2

FileOpIds == 1 .. MaxFileOps

IdleFileOp == [pc |-> "idle", kind |-> "none", key |-> Absent, tokens |-> NullTokens,
               data |-> [k \in StoreKeys |-> NullTokens]]

\* Results of tokens() and of redirectToAuthorization.
NoResult == [kind |-> "none"]

UndefinedResult == [kind |-> "undefined"]

TokensResult(t) == [kind |-> "tokens", value |-> t]

TypeError == [kind |-> "thrown", message |-> "TypeError"]

IdleTokensCall == [pc |-> "idle", stored |-> NullTokens, awaits |-> 0, out |-> NoResult,
                   at |-> 0]

IdleAuthCall == [pc |-> "idle", attempt |-> 0, wait |-> 0, awaits |-> 0,
                 res |-> NoOutcome, out |-> NoOutcome]

NotLoading == [pc |-> "none", read |-> NullTokens]

\* getPendingAuthCode's return value.
Pair(code, state) == [kind |-> "pair", code |-> code, state |-> state]

NoHist ==
    [pending |-> [captured |-> FALSE, cap |-> Pair(Absent, Absent), expired |-> FALSE,
                  reads |-> 0, firstRet |-> UndefinedResult, firstEx |-> FALSE,
                  laterHanded |-> FALSE],
     inv |-> [on |-> FALSE, client |-> NoClient, verifier |-> NoResult,
              clientAfter |-> NoClient, verifierAfter |-> NoResult, calls |-> {}],
     stops |-> [n |-> 0, overlapping |-> FALSE, unstarted |-> FALSE],
     loads |-> 0,
     saved |-> [on |-> FALSE, cleared |-> FALSE, tokens |-> NoTokens, entry |-> NullTokens,
                calls |-> {}],
     verifier |-> [last |-> "none", value |-> Absent],
     loadFailed |-> FALSE]

VARIABLES
    callbackListeners,  \* BaseCallbackServer.callbackListeners: path -> the call that listens
    server,             \* NodeCallbackServer.server: "none" (never started), "listening",
                        \* "failed" (created, not bound), "closing", "closed" (undefined again)
    signal,             \* the AbortSignal given to start: "none", "idle", "aborted"
    abortHandler,       \* BaseCallbackServer.abortHandler is registered on the signal
    call,               \* the waitForCallback invocations
    response,           \* the response to the last request
    first,              \* history: the first event that met each call while it was pending
    gaPc,               \* getAuthCode: where the invocation stands
    gaOut,              \* getAuthCode: what its promise settles with
    _clientId,          \* BrowserOAuthProvider: the static client id, or Absent
    _clientSecret,      \* the static client secret, or Absent
    oauthStore,         \* _isOAuthStore(this._store): the store has getClient / getSession
    _clientInfo,        \* the dynamically registered client
    _tokens,            \* the tokens held in memory
    _codeVerifier,      \* the PKCE verifier held in memory
    _pendingAuthCode,   \* the captured code awaiting its exchange
    _pendingAuthState,  \* the state captured with it
    _isExchangingCode,  \* the flag set by getPendingAuthCode
    _tokensLoaded,      \* the lazy load has finished (or saveTokens has run)
    _loadingTokens,     \* the promise of _loadStoredData and where that function stands
    _authInProgress,    \* the redirectToAuthorization call whose _doAuthorization is the marker
    _refreshInProgress, \* the tokens() call whose _doRefreshTokens is the marker
    store,              \* the contents of this._store
    now,                \* Date.now()
    tk,                 \* the tokens() invocations
    auth,               \* the redirectToAuthorization invocations
    codeTimers,         \* the armed auto-cleanup timers of _doAuthorization, oldest first
    hist,               \* history of the provider and of stop(), for the claims
    fsOps               \* the set and delete operations of a fileStore

serverVars == <<callbackListeners, server, signal, abortHandler, call, response, first>>

authVars == <<gaPc, gaOut>>

cfgVars == <<_clientId, _clientSecret, oauthStore>>

credVars == <<_clientInfo, _tokens, _codeVerifier>>

loadVars == <<_tokensLoaded, _loadingTokens>>

codeVars == <<_pendingAuthCode, _pendingAuthState, _isExchangingCode>>

tokensCallVars == <<tk, _refreshInProgress>>

redirectVars == <<auth, _authInProgress, codeTimers>>

provVars == <<cfgVars, fsOps, credVars, loadVars, codeVars, tokensCallVars, redirectVars,
              store, now, hist>>

otherVars == <<authVars, provVars>>

vars == <<serverVars, authVars, provVars>>

IdleCall == [st |-> "idle", path |-> Absent, outcome |-> NoOutcome, timer |-> FALSE]

NoEvent == [ev |-> "none", late |-> FALSE]

NoResponse == [status |-> 0, type |-> "none", body |-> "none"]

\* The client secrets passed to the constructor beside a static client id.
ClientSecrets == {Absent, "static-secret1"}

\* The provider after construction, over a store that is empty or holds the
\* state of an earlier run.
InitProvider(clientId, ext, st) ==
    /\ _clientId = clientId
    /\ _clientSecret \in IF clientId = Absent THEN {Absent} ELSE ClientSecrets
    /\ oauthStore = ext
    /\ _clientInfo = NoClient
    /\ _tokens = NoTokens
    /\ _codeVerifier = Absent
    /\ _pendingAuthCode = Absent
    /\ _pendingAuthState = Absent
    /\ _isExchangingCode = FALSE
    /\ _tokensLoaded = FALSE
    /\ _loadingTokens = NotLoading
    /\ _authInProgress = 0
    /\ _refreshInProgress = 0
    /\ store = st
    /\ now = StartMs
    /\ tk = [t \in TokensIds |-> IdleTokensCall]
    /\ auth = [a \in AuthIds |-> IdleAuthCall]
    /\ codeTimers = << >>
    /\ hist = NoHist
    /\ fsOps = [o \in FileOpIds |-> IdleFileOp]

InitServer ==
    /\ callbackListeners = [p \in Paths |-> NoCall]
    /\ server = "none"
    /\ signal = "none"
    /\ abortHandler = FALSE
    /\ call = [i \in CallIds |-> IdleCall]
    /\ response = NoResponse
    /\ first = [i \in CallIds |-> NoEvent]
    /\ gaPc = "init"
    /\ gaOut = NoOutcome

\* A server and a provider with the default in-memory store.
Init == InitServer /\ InitProvider(Absent, FALSE, EmptyStore)

(***************************************************************************)
(* A promise settles once: the first of resolve / reject decides, and      *)
(* Promise.race settles with the first of its members.                     *)
(***************************************************************************)
\* Mutant of Settle: a promise that has settled is settled again.
SettleAgain(c, o) ==
    IF c.st \in {"waiting", "settled"} THEN [c EXCEPT !.st = "settled", !.outcome = o] ELSE c

Settle(c, o) ==
    IF c.st = "waiting" THEN [c EXCEPT !.st = "settled", !.outcome = o] ELSE c

\* getAuthCode has a continuation in the microtask queue: start() has settled,
\* waitForCallback has settled, or stop() had no server to close.
gaContinues ==
    \/ gaPc \in {"started", "startFailed"}
    \/ gaPc = "waiting" /\ call[1].st = "done"
    \/ gaPc = "stopping" /\ server \in {"none", "closed"}

\* The microtask queue is empty: no settled promise still awaits its continuation.
NoMicrotask == (\A i \in CallIds : call[i].st # "settled") /\ ~gaContinues

\* History: the first event that meets a pending call.
Met(f, c, e) == IF c.st = "waiting" /\ f.ev = "none" THEN e ELSE f

\* History: a request for the call's path arrives after its timer has fired.
MetLate(f, c) == IF f.ev = "timeout" THEN [f EXCEPT !.late = TRUE] ELSE f

Falsy(x) == x = Absent \/ x = ""

(***************************************************************************)
(* generateCallbackHTML: the error page when params.error is truthy,       *)
(* the success page otherwise.                                             *)
(***************************************************************************)
generateCallbackHTML(params) == IF Falsy(params.error) THEN "success" ELSE "error"

\* waitForCallback's guard: this.callbackListeners.has(path).
HasListener(p) == callbackListeners[p] # NoCall

\* Mutant of DeleteListener: the finally block leaves the entry in the map.
DeleteListenerSkipped(m, p) == m

\* waitForCallback's finally: this.callbackListeners.delete(path).
DeleteListener(m, p) == [m EXCEPT ![p] = NoCall]

\* Mutant of TimerSettle: the timer callback runs but does not reject.
TimerSettleNoReject(c) == [c EXCEPT !.timer = FALSE]

\* The timer callback of waitForCallback rejects the timeout promise.
TimerSettle(c) == Settle([c EXCEPT !.timer = FALSE], TimeoutError)

\* Mutant of AlreadyAborted: setup() does not look at the signal's state.
AlreadyAbortedIgnored(sig) == FALSE

\* setup(): `signal.aborted` at the time of the call.
AlreadyAborted(sig) == sig = "aborted"

(***************************************************************************)
(* start(options) of NodeCallbackServer: setup() stores the signal, throws *)
(* if it is already aborted and registers the abort handler otherwise;     *)
(* then the server is created and listens, or fails (port in use).         *)
(***************************************************************************)
srvStart(sig, bound) ==
    /\ server = "none"
    /\ signal' = sig
    /\ IF AlreadyAborted(sig)
         THEN UNCHANGED <<abortHandler, server>>
         ELSE /\ abortHandler' = (sig = "idle")
              /\ server' = IF bound THEN "listening" ELSE "failed"
    /\ UNCHANGED <<callbackListeners, call, response, first>>

(***************************************************************************)
(* waitForCallback(path, timeout), up to its await: rejects at once if the *)
(* path has a listener, else registers the listener and arms the timer.    *)
(***************************************************************************)
srvWaitForCallback(i, p) ==
    /\ call[i].st = "idle"
    /\ \A j \in CallIds : j < i => call[j].st # "idle"   \* invocations are numbered in order
    /\ IF HasListener(p)
         THEN /\ call' = [call EXCEPT ![i] = [@ EXCEPT !.st = "done", !.path = p,
                                                      !.outcome = ActiveError]]
              /\ UNCHANGED callbackListeners
         ELSE /\ call' = [call EXCEPT ![i] = [@ EXCEPT !.st = "waiting", !.path = p,
                                                      !.timer = TRUE]]
              /\ callbackListeners' = [callbackListeners EXCEPT ![p] = i]
    /\ UNCHANGED <<server, signal, abortHandler, response, first>>

\* handleRequest without a listener: new Response("Not Found", { status: 404 }).
NotFound == [status |-> 404, type |-> "text/plain", body |-> "Not Found"]

\* Mutant of CallbackPage: the error page is served with status 400.
CallbackPageByOutcome(q) ==
    [status |-> IF Falsy(q.error) THEN 200 ELSE 400, type |-> "text/html",
     body |-> generateCallbackHTML(q)]

\* handleRequest with a listener: the rendered page, status 200, text/html.
CallbackPage(q) == [status |-> 200, type |-> "text/html", body |-> generateCallbackHTML(q)]

(***************************************************************************)
(* handleRequest(request): 404 without a listener for the path; else the   *)
(* listener is resolved with the query parameters and the page is          *)
(* rendered with status 200.                                               *)
(***************************************************************************)
srvHandleRequest(p, q) ==
    /\ server = "listening"
    /\ NoMicrotask
    /\ LET j == callbackListeners[p] IN
         IF j = NoCall
           THEN /\ response' = NotFound
                /\ UNCHANGED call
           ELSE /\ call' = [call EXCEPT ![j] = Settle(@, Resolved(q))]
                /\ response' = CallbackPage(q)
    /\ first' = [i \in CallIds |->
                   IF call[i].path = p
                     THEN MetLate(Met(first[i], call[i],
                                      [ev |-> "request", late |-> FALSE, params |-> q]),
                                  call[i])
                     ELSE first[i]]
    /\ UNCHANGED <<callbackListeners, server, signal, abortHandler>>

\* The setTimeout callback of call i.
srvTimerFires(i) ==
    /\ call[i].timer
    /\ NoMicrotask
    /\ call' = [call EXCEPT ![i] = TimerSettle(@)]
    /\ first' = [first EXCEPT ![i] = Met(@, call[i], [ev |-> "timeout", late |-> FALSE])]
    /\ UNCHANGED <<callbackListeners, server, signal, abortHandler, response>>

\* The continuation of waitForCallback's await: the finally block, then the
\* caller sees the outcome.
srvWaitForCallbackFinally(i) ==
    /\ call[i].st = "settled"
    /\ callbackListeners' = DeleteListener(callbackListeners, call[i].path)
    /\ call' = [call EXCEPT ![i].st = "done"]
    /\ UNCHANGED <<server, signal, abortHandler, response, first>>

(***************************************************************************)
(* stop(), up to its await: removes the abort handler, rejects every       *)
(* listener of the map, clears the map and calls stopServer(), which       *)
(* closes the server if there is one.                                      *)
(***************************************************************************)
StopListeners(c) ==
    [i \in CallIds |->
       IF \E p \in Paths : callbackListeners[p] = i
         THEN Settle(c[i], StoppedError) ELSE c[i]]

\* Mutant of StopEffect: stop() does not clear the listener map.
StopEffectKeepsMap ==
    /\ abortHandler' = FALSE
    /\ call' = StopListeners(call)
    /\ UNCHANGED callbackListeners
    /\ server' = IF server \in {"none", "closed"} THEN server ELSE "closing"
    /\ first' = [i \in CallIds |-> Met(first[i], call[i], [ev |-> "stop", late |-> FALSE])]
    /\ UNCHANGED response

StopEffect ==
    /\ abortHandler' = FALSE
    /\ call' = StopListeners(call)
    /\ callbackListeners' = [p \in Paths |-> NoCall]
    /\ server' = IF server \in {"none", "closed"} THEN server ELSE "closing"
    /\ first' = [i \in CallIds |-> Met(first[i], call[i], [ev |-> "stop", late |-> FALSE])]
    /\ UNCHANGED response

srvStop ==
    /\ StopEffect
    /\ UNCHANGED signal

\* The callback of server.close() in stopServer: this.server = undefined.
srvStopServerDone ==
    /\ server = "closing"
    /\ NoMicrotask
    /\ server' = "closed"
    /\ UNCHANGED <<callbackListeners, signal, abortHandler, call, response, first>>

\* The signal fires: the abort handler, if registered, calls stop().
srvAbort ==
    /\ signal = "idle"
    /\ signal' = "aborted"
    /\ IF abortHandler
         THEN StopEffect
         ELSE UNCHANGED <<callbackListeners, server, abortHandler, call, response, first>>

(***************************************************************************)
(* The callback server used directly.                                      *)
(***************************************************************************)
start(sig, bound) == srvStart(sig, bound) /\ UNCHANGED otherVars

waitForCallback(i, p) == srvWaitForCallback(i, p) /\ UNCHANGED otherVars

handleRequest(p, q) == srvHandleRequest(p, q) /\ UNCHANGED otherVars

timerFires(i) == srvTimerFires(i) /\ UNCHANGED otherVars

waitForCallbackFinally(i) == srvWaitForCallbackFinally(i) /\ UNCHANGED otherVars

stop == srvStop /\ UNCHANGED otherVars

stopServerDone == srvStopServerDone /\ UNCHANGED otherVars

abort == srvAbort /\ UNCHANGED otherVars

NextServer ==
    \/ \E sig \in {"none", "idle", "aborted"}, bound \in BOOLEAN : start(sig, bound)
    \/ \E i \in CallIds, p \in Paths : waitForCallback(i, p)
    \/ \E p \in Paths, q \in ServerQueries : handleRequest(p, q)
    \/ \E i \in CallIds : timerFires(i)
    \/ \E i \in CallIds : waitForCallbackFinally(i)
    \/ stop
    \/ stopServerDone
    \/ abort

SpecServer == Init /\ [][NextServer]_vars

(***************************************************************************)
(* Claims about the callback server.                                       *)
(***************************************************************************)
Pending(i) == call[i].st = "waiting"

Registered(i) == call[i].st \in {"waiting", "settled", "done"} /\ call[i].outcome # ActiveError

\* The outcome the first event decides.
OutcomeOf(f) ==
    CASE f.ev = "request" -> Resolved(f.params)
      [] f.ev = "timeout" -> TimeoutError
      [] f.ev = "stop" -> StoppedError
      [] OTHER -> NoOutcome

(* C1: every waitForCallback call that waits ends with exactly the outcome *)
(* of the first event that meets it while it is pending: resolved with the *)
(* parameters of the first matching request, rejected by the timer, or     *)
(* rejected by stop/abort; so an event has met a call if and only if the   *)
(* call has that event's outcome.                                          *)
C1_FirstEventDecides ==
    \A i \in CallIds : Registered(i) => call[i].outcome = OutcomeOf(first[i])

(* C2: no waiter entry outlives its attempt: every entry of the listener   *)
(* map belongs to an attempt that has not concluded, so once every attempt *)
(* has concluded the map is empty.                                         *)
C2_NoLeakedListener ==
    \A p \in Paths :
        HasListener(p) => call[callbackListeners[p]].st \in {"waiting", "settled"}

\* Three attempts have concluded, by a request, by the timer and by stop, and
\* the map is empty.
C2_Witness ==
    /\ \A p \in Paths : ~HasListener(p)
    /\ \E i, j, k \in CallIds :
          /\ call[i].st = "done" /\ call[i].outcome.kind = "resolved"
          /\ call[j].st = "done" /\ call[j].outcome = TimeoutError
          /\ call[k].st = "done" /\ call[k].outcome = StoppedError

(* C9: at most one waitForCallback call is pending per path at any time    *)
(* (a call made while an earlier one on the path is pending is rejected    *)
(* at once and does not become a second waiter).                           *)
C9_OneWaiterPerPath ==
    \A p \in Paths :
        Cardinality({i \in CallIds : Pending(i) /\ call[i].path = p}) <= 1

(* C10: a call whose timer fired while it was pending has the timeout      *)
(* rejection as its outcome, whatever arrives later: a matching request    *)
(* after the timeout never resolves it.                                    *)
C10_NoLateResolution ==
    \A i \in CallIds : first[i].ev = "timeout" => call[i].outcome = TimeoutError

\* A call has timed out and a request for its path has arrived afterwards.
C10_Witness ==
    \E i \in CallIds : first[i].late /\ call[i].st = "done"

(***************************************************************************)
(* getAuthCode(input): one server per invocation; start, launch the        *)
(* browser (or fetch the URL in test mode), await the one callback on      *)
(* callbackPath, throw an OAuthError for a result with an error, and stop  *)
(* the server in the finally block.  Its waitForCallback is invocation 1.  *)
(***************************************************************************)
CallbackPath == "/callback"

Returned(q) == [kind |-> "returned", params |-> q]

OAuthError(q) ==
    [kind |-> "oauth_error", error |-> q.error,
     error_description |-> q.error_description, error_uri |-> q.error_uri]

PortInUseError == [kind |-> "rejected", message |-> "EADDRINUSE"]

LaunchError == [kind |-> "rejected", message |-> "browser launch failed"]

\* Mutant of ResultOf: a result that carries an error is returned like any other.
ResultOfUnchecked(o) ==
    IF o.kind = "resolved" THEN Returned(o.params) ELSE o

\* What getAuthCode makes of the settled waitForCallback: `if (result.error) throw`.
ResultOf(o) ==
    IF o.kind = "resolved"
      THEN IF ~Falsy(o.params.error) THEN OAuthError(o.params) ELSE Returned(o.params)
      ELSE o

\* Mutant of StopCompleted: the finally block does not await stop().
StopNotAwaited == TRUE

\* `await server.stop()`: stopServer has resolved, the server is released.
StopCompleted == server \in {"none", "closed"}

\* getAuthCode is called: `await server.start(...)`.
gaCall(sig, bound) ==
    /\ UNCHANGED provVars
    /\ gaPc = "init"
    /\ srvStart(sig, bound)
    /\ IF AlreadyAborted(sig)
         THEN gaPc' = "startFailed" /\ gaOut' = AbortedError
         ELSE IF bound
                THEN gaPc' = "started" /\ UNCHANGED gaOut
                ELSE gaPc' = "startFailed" /\ gaOut' = PortInUseError

\* start() has rejected: the finally block calls stop().
gaStartFailed ==
    /\ UNCHANGED provVars
    /\ gaPc = "startFailed"
    /\ srvStop
    /\ gaPc' = "stopping"
    /\ UNCHANGED gaOut

\* start() has resolved: `await open(url)`, or in test mode the fetch is sent
\* without awaiting it and waitForCallback is called at once.
gaLaunch(openBrowser) ==
    /\ UNCHANGED provVars
    /\ gaPc = "started"
    /\ IF openBrowser
         THEN gaPc' = "opening" /\ UNCHANGED serverVars
         ELSE gaPc' = "waiting" /\ srvWaitForCallback(1, CallbackPath)
    /\ UNCHANGED gaOut

\* open() settles: waitForCallback is called, or the failure reaches the
\* finally block, which calls stop().
gaOpenDone(ok) ==
    /\ UNCHANGED provVars
    /\ gaPc = "opening"
    /\ NoMicrotask
    /\ IF ok
         THEN gaPc' = "waiting" /\ srvWaitForCallback(1, CallbackPath) /\ UNCHANGED gaOut
         ELSE gaPc' = "stopping" /\ srvStop /\ gaOut' = LaunchError

\* waitForCallback has settled: the result is checked and the finally block
\* calls stop().
gaAwaitDone ==
    /\ UNCHANGED provVars
    /\ gaPc = "waiting"
    /\ call[1].st = "done"
    /\ gaOut' = ResultOf(call[1].outcome)
    /\ srvStop
    /\ gaPc' = "stopping"

\* stop() has resolved: getAuthCode's promise settles.
gaSettle ==
    /\ UNCHANGED provVars
    /\ gaPc = "stopping"
    /\ StopCompleted
    /\ gaPc' = "settled"
    /\ UNCHANGED <<serverVars, gaOut>>

NextAuth ==
    \/ \E sig \in {"none", "idle", "aborted"}, bound \in BOOLEAN : gaCall(sig, bound)
    \/ gaStartFailed
    \/ \E openBrowser \in BOOLEAN : gaLaunch(openBrowser)
    \/ \E ok \in BOOLEAN : gaOpenDone(ok)
    \/ gaAwaitDone
    \/ gaSettle
    \/ \E p \in Paths, q \in Queries : handleRequest(p, q)
    \/ timerFires(1)
    \/ waitForCallbackFinally(1)
    \/ stopServerDone
    \/ abort

SpecAuth == Init /\ [][NextAuth]_vars

(***************************************************************************)
(* Claims about getAuthCode.                                               *)
(***************************************************************************)
(* C3: when getAuthCode's promise settles, on any exit path, stop() has    *)
(* completed: the server is not bound and holds no listener.               *)
C3_StoppedBeforeSettle ==
    gaPc = "settled" =>
        /\ server \in {"none", "closed"}
        /\ \A p \in Paths : ~HasListener(p)
        /\ ~abortHandler

\* getAuthCode has returned the callback of a server that was listening.
C3_Witness ==
    gaPc = "settled" /\ gaOut.kind = "returned" /\ server = "closed"

provContinues ==
    \/ \E a \in AuthIds :
          \/ auth[a].pc = "finished"
          \/ auth[a].pc = "following" /\ auth[auth[a].awaits].res # NoOutcome
    \/ \E t \in TokensIds :
          \/ tk[t].pc \in {"ensured", "checking", "refreshing", "refreshed"}
          \/ tk[t].pc = "ensuring" /\ _loadingTokens.pc = "done"
          \/ tk[t].pc = "refreshWait" /\ tk[tk[t].awaits].pc \in {"refreshed", "done"}
    \/ _loadingTokens.pc \in {"tokens", "client", "session"}

\* What getAuthCode can settle with: a returned callback, an OAuthError, or
\* another rejection (timeout, port in use).
GetAuthCodeOutcomes ==
    { ResultOf(o) : o \in {Resolved(q) : q \in Queries} \cup {TimeoutError, PortInUseError} }

VoidOutcome == [kind |-> "resolved"]

AttemptsExhausted ==
    [kind |-> "rejected", message |-> "OAuth authorization failed after 3 attempts"]

\* Mutant of RetryAllowed: a failed attempt is always retried.
RetryAlways(attempt) == TRUE

\* _doAuthorization: `if (attempt < maxRetries)`, and the loop's bound.
RetryAllowed(attempt) == attempt < maxRetries

\* _doAuthorization: the pause before the next attempt, 1000 * (attempt + 1) ms.
BackoffMs(attempt) == 1000 * (attempt + 1)

\* Mutant of AuthInFlight: redirectToAuthorization does not look at the marker.
AuthInFlightIgnored == FALSE

\* redirectToAuthorization's guard: `if (this._authInProgress)`.
AuthInFlight == _authInProgress # 0

(***************************************************************************)
(* redirectToAuthorization(url), up to its await: with an attempt in       *)
(* flight it awaits that attempt; else it sets the marker to its own       *)
(* _doAuthorization, which runs up to its first getAuthCode call.          *)
(***************************************************************************)
redirectToAuthorization(a) ==
    /\ auth[a].pc = "idle"
    /\ \A b \in AuthIds : b < a => auth[b].pc # "idle"   \* invocations are numbered in order
    /\ IF AuthInFlight
         THEN /\ auth' = [auth EXCEPT ![a] = [@ EXCEPT !.pc = "following",
                                                      !.awaits = _authInProgress]]
              /\ UNCHANGED _authInProgress
         ELSE /\ auth' = [auth EXCEPT ![a] = [@ EXCEPT !.pc = "capturing", !.awaits = a]]
              /\ _authInProgress' = a
    /\ UNCHANGED <<serverVars, authVars, cfgVars, fsOps, credVars, loadVars, codeVars,
                   tokensCallVars, codeTimers, store, now, hist>>

\* Mutant of AfterFailure: a failed attempt clears the cached code.
AfterFailureCleared(x) == Absent

\* _doAuthorization's catch block assigns nothing to the cached code and state.
AfterFailure(x) == x

(***************************************************************************)
(* _doAuthorization: the getAuthCode of the running attempt settles.  A    *)
(* returned callback is cached and its cleanup timer armed; an OAuthError  *)
(* is rethrown; any other error is retried after a pause, maxRetries       *)
(* times.                                                                  *)
(***************************************************************************)
doAuthorizationCaptured(a, o) ==
    /\ auth[a].pc = "capturing"
    /\ ~provContinues
    /\ CASE o.kind = "returned" ->
             /\ _pendingAuthCode' = o.params.code
             /\ _pendingAuthState' = o.params.state
             /\ codeTimers' = Append(codeTimers, o.params.code)
             /\ auth' = [auth EXCEPT ![a] = [@ EXCEPT !.pc = "finished", !.res = VoidOutcome]]
             /\ hist' = [hist EXCEPT !.pending =
                            [NoHist.pending EXCEPT !.captured = TRUE,
                                                   !.cap = Pair(o.params.code, o.params.state)]]
        [] o.kind = "oauth_error" ->
             /\ auth' = [auth EXCEPT ![a] = [@ EXCEPT !.pc = "finished", !.res = o]]
             /\ _pendingAuthCode' = AfterFailure(_pendingAuthCode)
             /\ _pendingAuthState' = AfterFailure(_pendingAuthState)
             /\ UNCHANGED <<codeTimers, hist>>
        [] OTHER ->
             /\ auth' = [auth EXCEPT ![a] =
                            IF RetryAllowed(@.attempt)
                              THEN [@ EXCEPT !.pc = "backoff",
                                              !.wait = BackoffMs(auth[a].attempt)]
                              ELSE [@ EXCEPT !.pc = "finished", !.res = AttemptsExhausted]]
             /\ _pendingAuthCode' = AfterFailure(_pendingAuthCode)
             /\ _pendingAuthState' = AfterFailure(_pendingAuthState)
             /\ UNCHANGED <<codeTimers, hist>>
    /\ UNCHANGED <<serverVars, authVars, cfgVars, fsOps, credVars, loadVars, _isExchangingCode,
                   tokensCallVars, _authInProgress, store, now>>

\* _doAuthorization: the pause before a retry is over, getAuthCode is called again.
doAuthorizationRetry(a) ==
    /\ auth[a].pc = "backoff"
    /\ ~provContinues
    /\ auth' = [auth EXCEPT ![a] = [@ EXCEPT !.pc = "capturing", !.attempt = @ + 1,
                                                !.wait = 0]]
    /\ UNCHANGED <<serverVars, authVars, cfgVars, fsOps, credVars, loadVars, codeVars,
                   tokensCallVars, _authInProgress, codeTimers, store, now, hist>>

\* Mutant of AfterAttempt: the finally block leaves the marker set.
AfterAttemptKept(m) == m

\* redirectToAuthorization's finally block: this._authInProgress = undefined.
AfterAttempt(m) == 0

\* redirectToAuthorization of the attempt's owner: _doAuthorization has settled,
\* the finally block clears the marker.
redirectFinally(a) ==
    /\ auth[a].pc = "finished"
    /\ _authInProgress' = AfterAttempt(_authInProgress)
    /\ auth' = [auth EXCEPT ![a] = [@ EXCEPT !.pc = "done", !.out = auth[a].res]]
    /\ UNCHANGED <<serverVars, authVars, cfgVars, fsOps, credVars, loadVars, codeVars,
                   tokensCallVars, codeTimers, store, now, hist>>

\* redirectToAuthorization of a caller that awaited another's attempt.
redirectAwaited(a) ==
    /\ auth[a].pc = "following"
    /\ auth[auth[a].awaits].res # NoOutcome
    /\ auth' = [auth EXCEPT ![a] = [@ EXCEPT !.pc = "done",
                                                !.out = auth[auth[a].awaits].res]]
    /\ UNCHANGED <<serverVars, authVars, cfgVars, fsOps, credVars, loadVars, codeVars,
                   tokensCallVars, _authInProgress, codeTimers, store, now, hist>>

\* Mutant of AfterExpiry: the cleanup timer leaves the cache as it is.
AfterExpiryKept(x) == x

\* The cleanup timer's body: this._pendingAuthCode = undefined (and the state
\* likewise).
AfterExpiry(x) == Absent

\* The cleanup timer of the oldest capture fires: the cache is cleared if it
\* still holds that capture's code.
codeTimerFires ==
    /\ codeTimers # << >>
    /\ ~provContinues
    /\ codeTimers' = Tail(codeTimers)
    /\ IF _pendingAuthCode = Head(codeTimers)
         THEN /\ _pendingAuthCode' = AfterExpiry(_pendingAuthCode)
              /\ _pendingAuthState' = AfterExpiry(_pendingAuthState)
              /\ hist' = [hist EXCEPT !.pending.expired = TRUE]
         ELSE UNCHANGED <<_pendingAuthCode, _pendingAuthState, hist>>
    /\ UNCHANGED <<serverVars, authVars, cfgVars, fsOps, credVars, loadVars, _isExchangingCode,
                   tokensCallVars, auth, _authInProgress, store, now>>

\* Mutant of AfterRead: getPendingAuthCode leaves the code in the cache.
AfterReadKept(x) == x

\* getPendingAuthCode: this._pendingAuthCode = undefined (and the state likewise).
AfterRead(x) == Absent

(***************************************************************************)
(* getPendingAuthCode(): with a truthy cached code it returns the pair,    *)
(* sets _isExchangingCode and clears the cache; else it returns undefined. *)
(***************************************************************************)
getPendingAuthCode ==
    LET hit == ~Falsy(_pendingAuthCode)
        ret == IF hit THEN Pair(_pendingAuthCode, _pendingAuthState) ELSE UndefinedResult
        h == hist.pending
    IN  /\ IF hit
             THEN /\ _isExchangingCode' = TRUE
                  /\ _pendingAuthCode' = AfterRead(_pendingAuthCode)
                  /\ _pendingAuthState' = AfterRead(_pendingAuthState)
             ELSE UNCHANGED codeVars
        /\ hist' = [hist EXCEPT !.pending =
                       IF h.reads = 0
                         THEN [h EXCEPT !.reads = 1, !.firstRet = ret,
                                        !.firstEx = _isExchangingCode']
                         ELSE [h EXCEPT !.reads = 2,
                                        !.laterHanded = @ \/ ret # UndefinedResult]]
        /\ UNCHANGED <<serverVars, authVars, cfgVars, fsOps, credVars, loadVars,
                       tokensCallVars, redirectVars, store, now>>

(***************************************************************************)
(* Tokens, client information and verifier.                                *)
(***************************************************************************)
\* calculateExpiry(expiresIn): undefined for a falsy expires_in, else
\* Date.now() + expiresIn * 1000.
calculateExpiry(expiresIn, t) ==
    IF ~TruthyNum(expiresIn) THEN NoNumber ELSE Num(t + expiresIn[1] * 1000)

\* saveTokens: the persisted form of a token response.
ToStored(tokens, t) ==
    MkStored(tokens.access_token, tokens.refresh_token,
             IF TruthyNum(tokens.expires_in) THEN calculateExpiry(tokens.expires_in, t)
                                             ELSE NoNumber,
             tokens.scope)

\* _loadStoredData: the in-memory form of a persisted entry.
FromStored(stored, t) ==
    MkTokens(stored.accessToken, stored.refreshToken,
             IF TruthyNum(stored.expiresAt) THEN Num((stored.expiresAt[1] - t) \div 1000)
                                            ELSE NoNumber,
             stored.scope)

\* tokens(): `stored?.expiresAt` is truthy and Date.now() >= stored.expiresAt - 60000.
Expired(stored, t) ==
    TruthyNum(stored.expiresAt) /\ t >= stored.expiresAt[1] - BufferMs

\* Mutant of clientInformation: the registered client comes first.
clientInformationRegisteredFirst ==
    IF _clientInfo # NoClient THEN MkClient(_clientInfo.client_id, _clientInfo.client_secret)
    ELSE IF ~Falsy(_clientId) THEN MkClient(_clientId, _clientSecret) ELSE NoClient

\* clientInformation(): the static credentials first, else the registered client.
clientInformation ==
    IF ~Falsy(_clientId) THEN MkClient(_clientId, _clientSecret)
    ELSE IF _clientInfo # NoClient
           THEN MkClient(_clientInfo.client_id, _clientInfo.client_secret)
           ELSE NoClient

\* codeVerifier(): the verifier held, or the error "Code verifier not found".
codeVerifier ==
    IF Falsy(_codeVerifier) THEN [kind |-> "thrown", message |-> "Code verifier not found"]
                            ELSE [kind |-> "verifier", value |-> _codeVerifier]

ReturnTokens(c, r) == [c EXCEPT !.pc = "done", !.out = r, !.at = now]

\* Mutant of LoadStarted: the promise of the load is not remembered.
LoadStartedForgotten == FALSE

\* _ensureTokensLoaded: `this._loadingTokens` is set.
LoadStarted == _loadingTokens.pc # "none"

(***************************************************************************)
(* tokens(), up to `await this._ensureTokensLoaded()`: a load that has not *)
(* been started is started and reads the store.                            *)
(***************************************************************************)
tokensCall(t) ==
    /\ tk[t].pc = "idle"
    /\ \A u \in TokensIds : u < t => tk[u].pc # "idle"   \* invocations are numbered in order
    /\ IF _tokensLoaded
         THEN /\ tk' = [tk EXCEPT ![t].pc = "ensured"]
              /\ UNCHANGED _loadingTokens
         ELSE /\ tk' = [tk EXCEPT ![t].pc = "ensuring"]
              /\ _loadingTokens' =
                    IF ~LoadStarted
                      THEN [pc |-> "tokens", read |-> store.tokens[StoreKey]]
                      ELSE _loadingTokens
    /\ hist' = [hist EXCEPT !.inv.calls = IF hist.inv.on THEN @ \cup {t} ELSE @,
                            !.saved.calls = IF hist.saved.on \/ hist.saved.cleared
                                              THEN @ \cup {t} ELSE @,
                            !.loads = IF ~_tokensLoaded /\ ~LoadStarted THEN @ + 1 ELSE @]
    /\ UNCHANGED <<serverVars, authVars, cfgVars, fsOps, credVars, _tokensLoaded, codeVars,
                   _refreshInProgress, redirectVars, store, now>>

\* _loadStoredData after `await this._store.get`: the tokens are set; an
\* OAuthStore is asked for the client, else the load is over.
loadTokens ==
    /\ _loadingTokens.pc = "tokens"
    /\ _tokens' = IF _loadingTokens.read # NullTokens
                    THEN FromStored(_loadingTokens.read, now) ELSE _tokens
    /\ IF oauthStore
         THEN /\ _loadingTokens' = [pc |-> "client", read |-> store.client[StoreKey]]
              /\ UNCHANGED _tokensLoaded
         ELSE /\ _loadingTokens' = [pc |-> "done", read |-> NullTokens]
              /\ _tokensLoaded' = TRUE
    /\ UNCHANGED <<serverVars, authVars, cfgVars, fsOps, _clientInfo, _codeVerifier, codeVars,
                   tokensCallVars, redirectVars, store, now, hist>>

\* _loadStoredData after `await this._store.getClient`.
loadClient ==
    /\ _loadingTokens.pc = "client"
    /\ _clientInfo' = IF _loadingTokens.read # NullClient
                        THEN MkClient(_loadingTokens.read.clientId,
                                      _loadingTokens.read.clientSecret)
                        ELSE _clientInfo
    /\ _loadingTokens' = [pc |-> "session", read |-> store.session[StoreKey]]
    /\ UNCHANGED <<serverVars, authVars, cfgVars, fsOps, _tokens, _codeVerifier, _tokensLoaded,
                   codeVars, tokensCallVars, redirectVars, store, now, hist>>

\* _loadStoredData after `await this._store.getSession`: the load is over.
loadSession ==
    /\ _loadingTokens.pc = "session"
    /\ _codeVerifier' = IF _loadingTokens.read.exists
                          THEN _loadingTokens.read.codeVerifier ELSE _codeVerifier
    /\ _loadingTokens' = [pc |-> "done", read |-> NullTokens]
    /\ _tokensLoaded' = TRUE
    /\ UNCHANGED <<serverVars, authVars, cfgVars, fsOps, _clientInfo, _tokens, codeVars,
                   tokensCallVars, redirectVars, store, now, hist>>

\* _loadStoredData when the store read it awaits rejects: the catch block
\* warns and marks the load done.
loadFailed ==
    /\ _loadingTokens.pc \in {"tokens", "client", "session"}
    /\ _loadingTokens' = [pc |-> "done", read |-> NullTokens]
    /\ _tokensLoaded' = TRUE
    /\ hist' = [hist EXCEPT !.loadFailed = TRUE]
    /\ UNCHANGED <<serverVars, authVars, cfgVars, fsOps, credVars, codeVars,
                   tokensCallVars, redirectVars, store, now>>

\* tokens() after `await this._ensureTokensLoaded()`: undefined without
\* tokens in memory, else the persisted entry is read.
tokensEnsured(t) ==
    /\ \/ tk[t].pc = "ensured"
       \/ tk[t].pc = "ensuring" /\ _loadingTokens.pc = "done"
    /\ tk' = [tk EXCEPT ![t] =
                 IF _tokens = NoTokens
                   THEN ReturnTokens(@, UndefinedResult)
                   ELSE [@ EXCEPT !.pc = "checking", !.stored = store.tokens[StoreKey]]]
    /\ UNCHANGED <<serverVars, authVars, cfgVars, fsOps, credVars, loadVars, codeVars,
                   _refreshInProgress, redirectVars, store, now, hist>>

\* Mutant of RefreshInFlight: the marker of the refresh is not consulted.
RefreshInFlightIgnored == FALSE

\* _refreshTokens: `this._refreshInProgress` is set.
RefreshInFlight == _refreshInProgress # 0

(***************************************************************************)
(* tokens() after `await this._store.get`: the tokens in memory unless the *)
(* entry read is expired; then undefined without a refresh token, else     *)
(* _refreshTokens() is awaited: the refresh in flight, or a new            *)
(* _doRefreshTokens, which runs up to `await this.clientInformation()`.    *)
(* `this._tokens.refresh_token` throws a TypeError without tokens.         *)
(***************************************************************************)
tokensChecked(t) ==
    /\ tk[t].pc = "checking"
    /\ IF ~Expired(tk[t].stored, now)
         THEN /\ tk' = [tk EXCEPT ![t] =
                          ReturnTokens(@, IF _tokens = NoTokens THEN UndefinedResult
                                                                ELSE TokensResult(_tokens))]
              /\ UNCHANGED _refreshInProgress
         ELSE IF _tokens = NoTokens
           THEN /\ tk' = [tk EXCEPT ![t] = ReturnTokens(@, TypeError)]
                /\ UNCHANGED _refreshInProgress
         ELSE IF Falsy(_tokens.refresh_token)
           THEN /\ tk' = [tk EXCEPT ![t] = ReturnTokens(@, UndefinedResult)]
                /\ UNCHANGED _refreshInProgress
         ELSE IF RefreshInFlight
           THEN /\ tk' = [tk EXCEPT ![t] = [@ EXCEPT !.pc = "refreshWait",
                                                      !.awaits = _refreshInProgress]]
                /\ UNCHANGED _refreshInProgress
           ELSE /\ tk' = [tk EXCEPT ![t] = [@ EXCEPT !.pc = "refreshing", !.awaits = t]]
                /\ _refreshInProgress' = t
    /\ UNCHANGED <<serverVars, authVars, cfgVars, fsOps, credVars, loadVars, codeVars,
                   redirectVars, store, now, hist>>

\* _doRefreshTokens after `await this.clientInformation()`: it throws, without
\* client information or because the refresh is not implemented.
doRefreshTokens(t) ==
    /\ tk[t].pc = "refreshing"
    /\ tk' = [tk EXCEPT ![t].pc = "refreshed"]
    /\ UNCHANGED <<serverVars, authVars, cfgVars, fsOps, credVars, loadVars, codeVars,
                   _refreshInProgress, redirectVars, store, now, hist>>

\* _refreshTokens of the refresh's owner: the finally block clears the marker;
\* tokens() catches the error and returns undefined.
refreshFinally(t) ==
    /\ tk[t].pc = "refreshed"
    /\ _refreshInProgress' = 0
    /\ tk' = [tk EXCEPT ![t] = ReturnTokens(@, UndefinedResult)]
    /\ UNCHANGED <<serverVars, authVars, cfgVars, fsOps, credVars, loadVars, codeVars,
                   redirectVars, store, now, hist>>

\* _refreshTokens of a caller that awaited another's refresh, which has failed.
refreshAwaited(t) ==
    /\ tk[t].pc = "refreshWait"
    /\ tk[tk[t].awaits].pc \in {"refreshed", "done"}
    /\ tk' = [tk EXCEPT ![t] = ReturnTokens(@, UndefinedResult)]
    /\ UNCHANGED <<serverVars, authVars, cfgVars, fsOps, credVars, loadVars, codeVars,
                   _refreshInProgress, redirectVars, store, now, hist>>

\* saveTokens(tokens): memory, then the store.
saveTokens(tokens) ==
    /\ _tokens' = tokens
    /\ _tokensLoaded' = TRUE
    /\ store' = [store EXCEPT !.tokens[StoreKey] = ToStored(tokens, now)]
    /\ hist' = [hist EXCEPT !.inv = NoHist.inv,
                            !.saved = [on |-> TRUE, cleared |-> FALSE, tokens |-> tokens,
                                       entry |-> ToStored(tokens, now), calls |-> {}]]
    /\ UNCHANGED <<serverVars, authVars, cfgVars, fsOps, _clientInfo, _codeVerifier,
                   _loadingTokens, codeVars, tokensCallVars, redirectVars, now>>

\* saveClientInformation(clientInformation): memory, then an OAuthStore.
saveClientInformation(c) ==
    /\ _clientInfo' = c
    /\ store' = IF oauthStore
                  THEN [store EXCEPT !.client[StoreKey] =
                                        MkStoredClient(c.client_id, c.client_secret)]
                  ELSE store
    /\ hist' = [hist EXCEPT !.inv = NoHist.inv]
    /\ UNCHANGED <<serverVars, authVars, cfgVars, fsOps, _tokens, _codeVerifier, loadVars,
                   codeVars, tokensCallVars, redirectVars, now>>

\* saveCodeVerifier(codeVerifier): memory, then the session of an OAuthStore.
saveCodeVerifier(v) ==
    /\ _codeVerifier' = v
    /\ store' = IF oauthStore
                  THEN [store EXCEPT !.session[StoreKey] = MkSession(v, _pendingAuthState)]
                  ELSE store
    /\ hist' = [hist EXCEPT !.inv = NoHist.inv,
                            !.verifier = [last |-> "saved", value |-> v]]
    /\ UNCHANGED <<serverVars, authVars, cfgVars, fsOps, _clientInfo, _tokens, loadVars,
                   codeVars, tokensCallVars, redirectVars, now>>

\* Mutant of ClearStore: store.clear() deletes nothing.
ClearStoreNothing(st) == st

\* store.clear() deletes the tokens of every key.
ClearStore(st) == [st EXCEPT !.tokens = [k \in StoreKeys |-> NullTokens]]

(***************************************************************************)
(* invalidateCredentials(scope).  During a code exchange "all" clears the  *)
(* tokens only and returns.  Else "client" and "all" end the exchange, and *)
(* the switch clears what the scope names.                                 *)
(***************************************************************************)
invalidateCredentials(scope) ==
    /\ UNCHANGED <<serverVars, authVars, cfgVars, fsOps, _loadingTokens, _pendingAuthCode,
                   _pendingAuthState, tokensCallVars, redirectVars, now>>
    /\ IF scope = "all" /\ _isExchangingCode
         THEN /\ _tokens' = NoTokens
              /\ store' = [store EXCEPT !.tokens[StoreKey] = NullTokens]
              /\ UNCHANGED <<_clientInfo, _codeVerifier, _tokensLoaded, _isExchangingCode>>
              /\ hist' = [hist EXCEPT !.inv =
                            [on |-> TRUE, client |-> clientInformation,
                             verifier |-> codeVerifier, clientAfter |-> clientInformation',
                             verifierAfter |-> codeVerifier', calls |-> {}],
                                      !.saved = [NoHist.saved EXCEPT !.cleared = TRUE]]
         ELSE /\ _isExchangingCode' = IF scope \in {"client", "all"} THEN FALSE
                                                                      ELSE _isExchangingCode
              /\ hist' = [hist EXCEPT !.inv = NoHist.inv,
                                      !.saved = IF scope \in {"tokens", "all"}
                                                  THEN [NoHist.saved EXCEPT !.cleared = TRUE]
                                                  ELSE @,
                                      !.verifier = IF scope \in {"verifier", "all"}
                                                     THEN [last |-> "cleared", value |-> Absent]
                                                     ELSE @]
              /\ CASE scope = "all" ->
                       /\ _clientInfo' = NoClient
                       /\ _tokens' = NoTokens
                       /\ _codeVerifier' = Absent
                       /\ _tokensLoaded' = FALSE
                       /\ store' = ClearStore(store)
                  [] scope = "client" ->
                       /\ _clientInfo' = NoClient
                       /\ store' = IF oauthStore
                                     THEN [store EXCEPT !.client[StoreKey] =
                                                           MkStoredClient("", Absent)]
                                     ELSE store
                       /\ UNCHANGED <<_tokens, _codeVerifier, _tokensLoaded>>
                  [] scope = "tokens" ->
                       /\ _tokens' = NoTokens
                       /\ store' = [store EXCEPT !.tokens[StoreKey] = NullTokens]
                       /\ UNCHANGED <<_clientInfo, _codeVerifier, _tokensLoaded>>
                  [] scope = "verifier" ->
                       /\ _codeVerifier' = Absent
                       /\ store' = IF oauthStore
                                     THEN [store EXCEPT !.session[StoreKey] =
                                             [exists |-> TRUE, codeVerifier |-> Absent,
                                              state |-> Absent]]
                                     ELSE store
                       /\ UNCHANGED <<_clientInfo, _tokens, _tokensLoaded>>

Scopes == {"all", "client", "tokens", "verifier"}

\* Time passes between two tasks.
tick ==
    /\ now < StartMs + MaxTicks * TickMs
    /\ ~provContinues
    /\ now' = now + TickMs
    /\ UNCHANGED <<serverVars, authVars, cfgVars, fsOps, credVars, loadVars, codeVars,
                   tokensCallVars, redirectVars, store, hist>>

(***************************************************************************)
(* The provider's authorization side: captures, the pending code, and the  *)
(* operations that touch the exchange flag.                                *)
(***************************************************************************)
NextRedirect ==
    \/ \E a \in AuthIds : redirectToAuthorization(a)
    \/ \E a \in AuthIds, o \in GetAuthCodeOutcomes : doAuthorizationCaptured(a, o)
    \/ \E a \in AuthIds : doAuthorizationRetry(a)
    \/ \E a \in AuthIds : redirectFinally(a)
    \/ \E a \in AuthIds : redirectAwaited(a)
    \/ codeTimerFires
    \/ getPendingAuthCode
    \/ \E scope \in Scopes : invalidateCredentials(scope)

SpecRedirect == Init /\ [][NextRedirect]_vars

(***************************************************************************)
(* The provider's token side, over a TokenStore: lazy load, expiry check,  *)
(* refresh, saveTokens and the invalidation of tokens.                     *)
(***************************************************************************)
InitTokens ==
    /\ InitServer
    /\ \E st \in {EmptyStore, EarlierStore(FALSE)} : InitProvider(Absent, FALSE, st)

NextTokens ==
    \/ \E t \in TokensIds : tokensCall(t)
    \/ loadTokens
    \/ \E t \in TokensIds : tokensEnsured(t)
    \/ \E t \in TokensIds : tokensChecked(t)
    \/ \E t \in TokensIds : doRefreshTokens(t)
    \/ \E t \in TokensIds : refreshFinally(t)
    \/ \E t \in TokensIds : refreshAwaited(t)
    \/ \E tokens \in TokenInputs : saveTokens(tokens)
    \/ \E scope \in {"tokens", "all"} : invalidateCredentials(scope)
    \/ tick

SpecTokens == InitTokens /\ [][NextTokens]_vars

(***************************************************************************)
(* Claims about the authorization side of the provider.                    *)
(***************************************************************************)
\* The redirectToAuthorization calls whose _doAuthorization is running.
Capturing == {a \in AuthIds : auth[a].pc \in {"capturing", "backoff"}}

\* Call a awaited the attempt of another call.
Follows(a) == auth[a].awaits \notin {0, a}

(* C4: at most one authorization capture is in flight per provider at any  *)
(* time: a redirectToAuthorization call made while another one is in       *)
(* flight starts no capture of its own, awaits the attempt in flight and   *)
(* completes, with that attempt's outcome, only when the attempt has       *)
(* completed.                                                              *)
C4_OneCaptureInFlight ==
    /\ Cardinality(Capturing) <= 1
    /\ \A a \in AuthIds :
          Follows(a) =>
            /\ auth[a].pc \in {"following", "done"}
            /\ auth[a].attempt = 0
            /\ auth[a].res = NoOutcome
            /\ auth[a].pc = "done" =>
                  /\ auth[auth[a].awaits].res # NoOutcome
                  /\ auth[a].out = auth[auth[a].awaits].res

\* A call that awaited another call's attempt has completed with the success
\* of that attempt.
C4_Witness ==
    \E a \in AuthIds :
        Follows(a) /\ auth[a].pc = "done" /\ auth[a].out = VoidOutcome
          /\ auth[auth[a].awaits].pc = "done"

(* C5 as stated: once a capture has stored {code, state}, the first        *)
(* getPendingAuthCode call returns that pair, clears the cache and sets    *)
(* ExchangingCode; every further call before a new capture returns         *)
(* undefined.                                                              *)
C5_FirstReadReturnsPair ==
    (hist.pending.captured /\ hist.pending.reads >= 1) =>
        /\ hist.pending.firstRet = hist.pending.cap
        /\ hist.pending.firstEx
        /\ Falsy(_pendingAuthCode)
        /\ ~hist.pending.laterHanded

(* C5, amended: getPendingAuthCode is read-and-clear: the first call after *)
(* a capture has stored {code, state} returns that pair, provided the code *)
(* is non-empty and no auto-expiry timer has cleared the cache before the  *)
(* call; a call that returns a pair returns the captured one, sets         *)
(* ExchangingCode and leaves the cache empty; every further call before a  *)
(* new capture returns undefined, so a captured code is handed out at most *)
(* once.                                                                   *)
C5_ReadAndClear ==
    hist.pending.reads >= 1 =>
        /\ (hist.pending.captured /\ ~Falsy(hist.pending.cap.code) /\ ~hist.pending.expired)
             => hist.pending.firstRet = hist.pending.cap
        /\ hist.pending.firstRet # UndefinedResult
             => /\ hist.pending.captured
                /\ hist.pending.firstRet = hist.pending.cap
                /\ hist.pending.firstEx
        /\ Falsy(_pendingAuthCode)
        /\ ~hist.pending.laterHanded

\* A captured pair has been read, and a second read has returned undefined.
C5_Witness ==
    /\ hist.pending.captured
    /\ hist.pending.reads = 2
    /\ hist.pending.firstRet = Pair("abc123", "s1")
    /\ ~hist.pending.laterHanded
    /\ _isExchangingCode

(***************************************************************************)
(* The provider during a code exchange, as the SDK drives it: one capture, *)
(* the read of the pending code, the first tokens() call with its lazy     *)
(* load, and the save and invalidate operations, over an OAuthStore.       *)
(***************************************************************************)
InitExchange ==
    /\ InitServer
    /\ \E st \in {EmptyStore, EarlierStore(TRUE)} : InitProvider(Absent, TRUE, st)

ExchangeTokenInputs == { MkTokens("at1", "rt1", Num(90), "read") }

NextExchange ==
    \/ redirectToAuthorization(1)
    \/ doAuthorizationCaptured(1, Returned(MkParams("abc123", "s1", Absent, Absent, Absent)))
    \/ redirectFinally(1)
    \/ getPendingAuthCode
    \/ \E t \in TokensIds : tokensCall(t)
    \/ loadTokens
    \/ loadClient
    \/ loadSession
    \/ \E t \in TokensIds : tokensEnsured(t)
    \/ \E t \in TokensIds : tokensChecked(t)
    \/ \E tokens \in ExchangeTokenInputs : saveTokens(tokens)
    \/ \E c \in ClientInputs : saveClientInformation(c)
    \/ \E v \in Verifiers : saveCodeVerifier(v)
    \/ invalidateCredentials("all")

SpecExchange == InitExchange /\ [][NextExchange]_vars

(***************************************************************************)
(* Claims about tokens, client information and verifier.                   *)
(***************************************************************************)
(* C6: invalidateCredentials("all") called while ExchangingCode is true    *)
(* clears only token state, in memory and in the store: clientInformation()*)
(* and codeVerifier() return after the call what they returned before it,  *)
(* the store holds no tokens, and a tokens() call made afterwards (before  *)
(* any save or further invalidation) returns undefined.                    *)
C6_TokensOnlyCleared ==
    hist.inv.on =>
        /\ hist.inv.clientAfter = hist.inv.client
        /\ hist.inv.verifierAfter = hist.inv.verifier
        /\ store.tokens[StoreKey] = NullTokens
        /\ \A t \in hist.inv.calls : tk[t].pc = "done" => tk[t].out = UndefinedResult

(* C7: tokens() never returns a token known to be expired: whenever the    *)
(* persisted expiresAt it reads is within the 60000 ms buffer of now       *)
(* (now >= expiresAt - 60000), tokens() resolves to undefined (no refresh  *)
(* can succeed); it returns no token and does not throw.                   *)
C7_ExpiredGivesUndefined ==
    \A t \in TokensIds :
        (tk[t].pc = "done" /\ Expired(tk[t].stored, tk[t].at))
            => tk[t].out = UndefinedResult

(***************************************************************************)
(* Further claims about the callback server and getAuthCode.               *)
(***************************************************************************)
(* C11: when the cancellation token fires while a waiter is pending, the   *)
(* listener is stopped and the pending waitForCallback rejects with the    *)
(* aborted condition, the error "Operation aborted".                       *)
C11_AbortRejectsAborted ==
    [][(signal = "idle" /\ signal' = "aborted" /\ abortHandler)
         => /\ server' \notin {"listening"}
            /\ \A i \in CallIds :
                  (Pending(i) /\ callbackListeners[call[i].path] = i)
                     => call'[i].st = "settled" /\ call'[i].outcome = AbortedError]_vars

(***************************************************************************)
(* Further claims about the authorization side of the provider.            *)
(***************************************************************************)
(* C12: one redirectToAuthorization runs at most 3 capture attempts: an    *)
(* attempt that fails with a non-OAuth error is followed by a pause of     *)
(* 1000 ms x its number and a retry, up to 2 times, and the call rejects   *)
(* after the third failure; an OAuthError is rethrown at once, with no     *)
(* retry.                                                                  *)
C12_AtMostThreeAttempts ==
    \A a \in AuthIds :
        /\ auth[a].attempt + 1 <= 3
        /\ auth[a].pc = "backoff" =>
              /\ auth[a].attempt + 1 <= 2
              /\ auth[a].wait = 1000 * (auth[a].attempt + 1)
              /\ auth[a].res = NoOutcome
        /\ auth[a].res.kind = "rejected" =>
              /\ auth[a].res = AttemptsExhausted
              /\ auth[a].attempt + 1 = 3
        /\ auth[a].res # NoOutcome => auth[a].pc \in {"finished", "done"}

\* One call has rejected after three failed attempts, another has rethrown an
\* OAuthError met in its second attempt.
C12_Witness ==
    \E a, b \in AuthIds :
        /\ auth[a].pc = "done" /\ auth[a].out = AttemptsExhausted /\ auth[a].attempt = 2
        /\ auth[b].pc = "done" /\ auth[b].out.kind = "oauth_error" /\ auth[b].attempt = 1

(***************************************************************************)
(* The callback server under repeated stop(): the calls of stop() are      *)
(* counted, with whether one was made on a server that never started and   *)
(* whether one was made while an earlier stop() was closing the server.    *)
(***************************************************************************)
MaxStops == 2

stopCounted ==
    /\ srvStop
    /\ hist' = [hist EXCEPT !.stops =
                   [n |-> IF @.n < MaxStops THEN @.n + 1 ELSE @.n,
                    overlapping |-> @.overlapping \/ server = "closing",
                    unstarted |-> @.unstarted \/ server = "none"]]
    /\ UNCHANGED <<authVars, cfgVars, fsOps, credVars, loadVars, codeVars, tokensCallVars,
                   redirectVars, store, now>>

NextStop ==
    \/ \E bound \in BOOLEAN : start("none", bound)
    \/ \E i \in CallIds : waitForCallback(i, CallbackPath)
    \/ \E q \in ServerQueries : handleRequest(CallbackPath, q)
    \/ \E i \in CallIds : waitForCallbackFinally(i)
    \/ stopCounted
    \/ stopServerDone

SpecStop == Init /\ [][NextStop]_vars

C14_StopRejectsPending ==
    [][stop =>
         \A i \in CallIds :
             /\ call'[i].st # "waiting"
             /\ Pending(i) => call'[i].st = "settled" /\ call'[i].outcome = StoppedError]_vars

(* C15: the persisted state is loaded at most once per provider: the      *)
(* store is read for loading at most once, however many tokens() calls     *)
(* find the state not loaded, and a call that waits for the load goes on   *)
(* only once the load has finished.                                        *)
C15_SingleLoad ==
    /\ [](hist.loads <= 1)
    /\ [][\A t \in TokensIds :
             (tk[t].pc = "ensuring" /\ tk'[t].pc # "ensuring") => _loadingTokens.pc = "done"]_vars

\* Two tokens() calls waited for the load together; one read was made and
\* the load has finished.
C15_Witness ==
    /\ \A t \in TokensIds : tk[t].pc = "ensuring"
    /\ _loadingTokens.pc = "done"
    /\ hist.loads = 1

\* The tokens() calls whose _doRefreshTokens has not been concluded by the
\* finally block of _refreshTokens.
Refreshing == {t \in TokensIds : tk[t].pc \in {"refreshing", "refreshed"}}

(* C16: at most one token refresh is in flight: the marker names the one   *)
(* refresh that has not concluded and is clear when there is none, also    *)
(* after a refresh that failed; a tokens() call that needs a refresh while *)
(* one is in flight waits for that refresh and starts none.                *)
C16_OneRefreshInFlight ==
    /\ Cardinality(Refreshing) <= 1
    /\ \A t \in Refreshing : _refreshInProgress = t
    /\ _refreshInProgress # 0 => _refreshInProgress \in Refreshing
    /\ \A t \in TokensIds :
          tk[t].pc = "refreshWait" =>
              /\ tk[t].awaits \in TokensIds \ {t}
              /\ tk[tk[t].awaits].awaits = tk[t].awaits
              /\ tk[tk[t].awaits].pc \in {"refreshing", "refreshed", "done"}

\* A tokens() call has waited for the refresh another call started; the
\* refresh failed, both calls returned undefined and the marker is clear.
C16_Witness ==
    \E t, u \in TokensIds :
        /\ t # u
        /\ tk[t].pc = "done" /\ tk[t].awaits = t /\ tk[t].out = UndefinedResult
        /\ tk[u].pc = "done" /\ tk[u].awaits = t /\ tk[u].out = UndefinedResult
        /\ _refreshInProgress = 0

(***************************************************************************)
(* The provider's credentials under every scope of invalidateCredentials:  *)
(* a provider with or without a static client id, over a TokenStore or an  *)
(* OAuthStore, empty or left by an earlier run, with the lazy load, the    *)
(* three save operations and a captured code being exchanged.              *)
(***************************************************************************)
ClientIds == {Absent, "static1"}

InitInvalidate ==
    /\ InitServer
    /\ \E clientId \in ClientIds, ext \in BOOLEAN :
          \E st \in {EmptyStore, EarlierStore(ext)} : InitProvider(clientId, ext, st)

NextInvalidate ==
    \/ redirectToAuthorization(1)
    \/ doAuthorizationCaptured(1, Returned(MkParams("abc123", "s1", Absent, Absent, Absent)))
    \/ redirectFinally(1)
    \/ getPendingAuthCode
    \/ tokensCall(1)
    \/ loadTokens
    \/ loadClient
    \/ loadSession
    \/ \E tokens \in ExchangeTokenInputs : saveTokens(tokens)
    \/ \E c \in ClientInputs : saveClientInformation(c)
    \/ \E v \in Verifiers : saveCodeVerifier(v)
    \/ \E scope \in Scopes : invalidateCredentials(scope)

SpecInvalidate == InitInvalidate /\ [][NextInvalidate]_vars

(* C17: invalidateCredentials(scope) clears exactly the state its scope    *)
(* names.  "tokens" clears the tokens in memory and in the store; "client" *)
(* clears the registered client information in memory and blanks the       *)
(* client of an OAuthStore; "verifier" clears the verifier in memory and   *)
(* in the session of an OAuthStore; "all", outside a code exchange, clears *)
(* the three in memory and the tokens of the store.  What the scope does   *)
(* not name (tokens, client information or verifier, in memory and in the  *)
(* store) is unchanged, and so is the static client id.                    *)
C17_ClearsNamedState ==
    [][\A scope \in Scopes :
          (invalidateCredentials(scope) /\ ~(scope = "all" /\ _isExchangingCode)) =>
             /\ scope \in {"tokens", "all"} =>
                   _tokens' = NoTokens /\ store'.tokens[StoreKey] = NullTokens
             /\ scope \in {"client", "all"} => _clientInfo' = NoClient
             /\ (scope = "client" /\ oauthStore) =>
                   store'.client[StoreKey] = MkStoredClient("", Absent)
             /\ scope \in {"verifier", "all"} => _codeVerifier' = Absent
             /\ (scope = "verifier" /\ oauthStore) =>
                   store'.session[StoreKey].codeVerifier = Absent
             /\ scope \notin {"tokens", "all"} =>
                   _tokens' = _tokens /\ store'.tokens = store.tokens
             /\ scope \notin {"client", "all"} =>
                   _clientInfo' = _clientInfo /\ store'.client = store.client
             /\ scope \notin {"verifier", "all"} =>
                   _codeVerifier' = _codeVerifier /\ store'.session = store.session
             /\ _clientId' = _clientId]_vars

\* The state of an earlier run was loaded from an OAuthStore and then
\* invalidated with scope "all": the load has finished and the provider is
\* marked not loaded, which only that scope does; memory and the tokens of
\* the store are clear.
C17_Witness ==
    /\ oauthStore
    /\ _loadingTokens.pc = "done" /\ ~_tokensLoaded
    /\ store.client[StoreKey] = MkStoredClient("dyn0", "sec0")
    /\ _tokens = NoTokens /\ store.tokens[StoreKey] = NullTokens
    /\ _clientInfo = NoClient
    /\ _codeVerifier = Absent

(* C18: saveTokens(T) overwrites the tokens in memory and in the store:    *)
(* until the next saveTokens or invalidation of the tokens the store holds *)
(* the entry derived from T, and a tokens() call made after saveTokens(T)  *)
(* that returns while T is not expired returns T's access_token,           *)
(* refresh_token and scope.                                                *)
C18_SaveTokensOverwrites ==
    hist.saved.on =>
        /\ store.tokens[StoreKey] = hist.saved.entry
        /\ \A t \in hist.saved.calls :
              (tk[t].pc = "done" /\ ~Expired(hist.saved.entry, now)) =>
                  /\ tk[t].out.kind = "tokens"
                  /\ tk[t].out.value.access_token = hist.saved.tokens.access_token
                  /\ tk[t].out.value.refresh_token = hist.saved.tokens.refresh_token
                  /\ tk[t].out.value.scope = hist.saved.tokens.scope

\* The store holds the entry tokens() call t has read, and its expiresAt is
\* more than 60000 ms in the future.
StoredFresh(t) ==
    /\ tk[t].stored = store.tokens[StoreKey]
    /\ TruthyNum(tk[t].stored.expiresAt)
    /\ tk[t].stored.expiresAt[1] - now > 60000

(* C19: when the stored expiresAt is more than 60000 ms in the future, the *)
(* step of tokens() after the expiry check returns the stored token (its   *)
(* access token, refresh token and scope), starts or awaits no refresh and *)
(* writes nothing to the store.                                            *)
C19_FreshTokenReturned ==
    [][\A t \in TokensIds :
          (tk[t].pc = "checking" /\ tk'[t].pc # "checking" /\ StoredFresh(t)) =>
             /\ tk'[t].pc = "done"
             /\ tk'[t].out.kind = "tokens"
             /\ tk'[t].out.value.access_token = tk[t].stored.accessToken
             /\ tk'[t].out.value.refresh_token = tk[t].stored.refreshToken
             /\ tk'[t].out.value.scope = tk[t].stored.scope
             /\ _refreshInProgress' = _refreshInProgress
             /\ store' = store]_vars

(***************************************************************************)
(* Capture attempts of a provider that holds credentials: the redirect     *)
(* with every outcome of getAuthCode and its retries, beside the lazy load *)
(* from an OAuthStore and saveTokens.                                      *)
(***************************************************************************)
NextCapture ==
    \/ \E a \in AuthIds : redirectToAuthorization(a)
    \/ \E a \in AuthIds, o \in GetAuthCodeOutcomes : doAuthorizationCaptured(a, o)
    \/ \E a \in AuthIds : doAuthorizationRetry(a)
    \/ \E a \in AuthIds : redirectFinally(a)
    \/ \E a \in AuthIds : redirectAwaited(a)
    \/ codeTimerFires
    \/ getPendingAuthCode
    \/ tokensCall(1)
    \/ loadTokens
    \/ loadClient
    \/ loadSession
    \/ \E tokens \in ExchangeTokenInputs : saveTokens(tokens)

SpecCapture == InitExchange /\ [][NextCapture]_vars

\* A step of redirectToAuthorization call a other than the caching of a
\* returned callback.
AbandonStep(a) ==
    /\ auth'[a] # auth[a]
    /\ ~(auth[a].pc = "capturing" /\ auth'[a].res = VoidOutcome)

(* C20: a capture attempt that ends in a timeout, like every step of       *)
(* redirectToAuthorization but the caching of a returned callback, leaves  *)
(* the store and the tokens, client information and verifier in memory     *)
(* unchanged and stores no pending code: the cached code and state are     *)
(* unchanged, and absent as long as no callback has been captured.         *)
C20_FailedAttemptKeepsState ==
    /\ [](~hist.pending.captured => _pendingAuthCode = Absent /\ _pendingAuthState = Absent)
    /\ [][\A a \in AuthIds :
             AbandonStep(a) =>
                 UNCHANGED <<store, _tokens, _clientInfo, _codeVerifier,
                             _pendingAuthCode, _pendingAuthState>>]_vars

\* A redirect has failed after three attempts without a capture, in a
\* provider that holds tokens, client information and a verifier in memory
\* and in its store; no code is pending.
C20_Witness ==
    /\ \E a \in AuthIds : auth[a].pc = "done" /\ auth[a].out = AttemptsExhausted
    /\ ~hist.pending.captured
    /\ _pendingAuthCode = Absent
    /\ _tokens # NoTokens /\ store.tokens[StoreKey] # NullTokens
    /\ _clientInfo # NoClient /\ store.client[StoreKey] # NullClient
    /\ _codeVerifier # Absent /\ store.session[StoreKey].exists

(* C21: a callback that carries neither code nor error is an error         *)
(* condition: getAuthCode does not return it as a captured result.         *)
C21_MalformedIsError ==
    (gaPc \in {"stopping", "settled"} /\ call[1].outcome.kind = "resolved"
       /\ call[1].outcome.params.code = Absent
       /\ call[1].outcome.params.error = Absent)
    => gaOut.kind # "returned"

(* C22: a failure of the browser launch is not fatal: when open() settles,  *)
(* resolved or rejected, getAuthCode goes on to wait for the callback, and *)
(* it never rejects with the launch failure.                               *)
C22_LaunchFailureNotFatal ==
    /\ [](gaOut # LaunchError)
    /\ [][(gaPc = "opening" /\ gaPc' # "opening") => gaPc' = "waiting"]_vars

C24_AbortedAtStart ==
    /\ [][(gaPc = "init" /\ gaPc' # "init" /\ signal' = "aborted") =>
            /\ gaPc' = "startFailed"
            /\ gaOut' = AbortedError
            /\ server' = "none"]_vars
    /\ [](gaOut = AbortedError =>
            /\ server = "none"
            /\ ~abortHandler
            /\ \A p \in Paths : ~HasListener(p)
            /\ \A i \in CallIds : call[i].st = "idle")

\* getAuthCode, called with an aborted signal, has rejected with the aborted
\* condition.
C24_Witness ==
    /\ gaPc = "settled"
    /\ gaOut = AbortedError
    /\ signal = "aborted"
    /\ server = "none"
    /\ \A i \in CallIds : call[i].st = "idle"

C26_StaticClientReturned ==
    /\ [][_clientId' = _clientId /\ _clientSecret' = _clientSecret]_vars
    /\ [](_clientId \in ClientIds \ {Absent} =>
            /\ clientInformation.client_id = _clientId
            /\ clientInformation.client_secret = _clientSecret)

\* A provider with static credentials holds another, registered client, in
\* memory and in its store, and returns the static ones.
C26_Witness ==
    /\ _clientId = "static1"
    /\ _clientSecret = "static-secret1"
    /\ _clientInfo \in ClientInputs
    /\ store.client[StoreKey] = MkStoredClient("dyn1", "sec1")
    /\ clientInformation = MkClient("static1", "static-secret1")

VerifierNotFound == [kind |-> "thrown", message |-> "Code verifier not found"]

(* C27: codeVerifier() fails with "Code verifier not found" whenever no    *)
(* verifier is held, before any was saved or loaded and after              *)
(* invalidateCredentials has cleared it; after saveCodeVerifier(v) it      *)
(* returns v until the next saveCodeVerifier or invalidation.              *)
C27_VerifierHeld ==
    /\ _codeVerifier = Absent => codeVerifier = VerifierNotFound
    /\ hist.verifier.last = "cleared" => codeVerifier = VerifierNotFound
    /\ hist.verifier.last = "saved" =>
          codeVerifier = [kind |-> "verifier", value |-> hist.verifier.value]

(* C28: a lazy load in flight never overwrites newer state in memory: a    *)
(* tokens() call made after saveTokens(T) returns no token other than T,   *)
(* and a tokens() call made after the tokens were invalidated returns no   *)
(* token, until the next saveTokens or invalidation.                       *)
C28_LoadKeepsNewerState ==
    \A t \in hist.saved.calls :
        (tk[t].pc = "done" /\ tk[t].out.kind = "tokens") =>
            /\ hist.saved.on
            /\ tk[t].out.value.access_token = hist.saved.tokens.access_token

(* C29: within one getAuthCode attempt no callback is lost: a request for  *)
(* the callback path that reaches the listening server before the attempt  *)
(* has a result, also while open() is still awaited, resolves the          *)
(* attempt's waiter and is not answered 404.                               *)
C29_NoCallbackLost ==
    [][\A q \in Queries :
          (handleRequest(CallbackPath, q) /\ gaPc \in {"opening", "waiting"}
             /\ call[1].st \in {"idle", "waiting"}) =>
              /\ response'.status = 200
              /\ call'[1].outcome = Resolved(q)]_vars

(* C30: the exchange flag is transient: set when getPendingAuthCode hands   *)
(* out a code, it is clear again once the tokens of that exchange have     *)
(* been saved, so that a later invalidateCredentials("all") clears the     *)
(* client information and the verifier with the tokens.                    *)
C30_ExchangeFlagTransient ==
    /\ [][\A tokens \in ExchangeTokenInputs : saveTokens(tokens) => ~_isExchangingCode']_vars
    /\ [][(invalidateCredentials("all") /\ hist.saved.on) =>
            _clientInfo' = NoClient /\ _codeVerifier' = Absent]_vars

(* C31: the marker of the authorization in progress is always released    *)
(* and never too early.  It names the call whose attempt is running or has *)
(* just settled, it is set as long as that attempt runs, and it is clear   *)
(* of a call that has settled; a redirectToAuthorization call made when    *)
(* every earlier call has settled, by success or failure, starts a capture *)
(* of its own.                                                             *)
C31_MarkerReleased ==
    /\ [](\A a \in AuthIds :
            /\ auth[a].pc \in {"capturing", "backoff", "finished"} => _authInProgress = a
            /\ auth[a].pc = "done" => _authInProgress # a)
    /\ [](_authInProgress # 0 =>
            auth[_authInProgress].pc \in {"capturing", "backoff", "finished"})
    /\ [][\A a \in AuthIds :
            (auth[a].pc = "idle" /\ auth'[a].pc # "idle"
               /\ \A b \in AuthIds \ {a} : auth[b].pc \in {"idle", "done"}) =>
                /\ auth'[a].pc = "capturing"
                /\ _authInProgress' = a]_vars

\* The first redirect has failed after its attempts and the second call runs
\* a capture of its own, which the marker names.
C31_Witness ==
    \E a, b \in AuthIds :
        /\ auth[a].pc = "done" /\ auth[a].out = AttemptsExhausted
        /\ auth[b].pc = "capturing" /\ auth[b].awaits = b
        /\ _authInProgress = b

(***************************************************************************)
(* Two providers with different storeKeys over one TokenStore: the token   *)
(* side of the first, the tokens of the second being in the store.         *)
(***************************************************************************)
InitShared == InitServer /\ InitProvider(Absent, FALSE, SharedStore)

SpecShared == InitShared /\ [][NextTokens]_vars

(* C32: invalidateCredentials("all") and invalidateCredentials("tokens")   *)
(* of one provider leave the tokens stored under the key of the other      *)
(* provider that shares the store as they were.                            *)
C32_OtherKeyUntouched ==
    [][\A scope \in {"all", "tokens"} :
          invalidateCredentials(scope) => store'.tokens[OtherKey] = store.tokens[OtherKey]]_vars

(* C33: the cleanup timer armed by one capture clears only that capture's  *)
(* code.  When the timer of an older capture fires while the cache holds   *)
(* the code of a later capture, whose own timer is still armed, the cached *)
(* code and state stay as they are.                                        *)
C33_TimerClearsOwnCode ==
    [][(codeTimerFires /\ Len(codeTimers) >= 2 /\ ~Falsy(_pendingAuthCode)) =>
          /\ _pendingAuthCode' = _pendingAuthCode
          /\ _pendingAuthState' = _pendingAuthState]_vars

(* C34: a captured code that is never read is removed when the cleanup     *)
(* timer of its capture fires.  Once the timer of the latest capture has   *)
(* fired the cache holds no code, it holds none while no timer is armed,   *)
(* and getPendingAuthCode then returns undefined and leaves the exchange   *)
(* flag as it was.                                                         *)
C34_UnreadCodeExpires ==
    /\ [][(codeTimerFires /\ Len(codeTimers) = 1) => Falsy(_pendingAuthCode')]_vars
    /\ [](codeTimers = << >> => Falsy(_pendingAuthCode))
    /\ [][(getPendingAuthCode /\ codeTimers = << >>) =>
            /\ UNCHANGED codeVars
            /\ hist.pending.reads = 0 => hist'.pending.firstRet = UndefinedResult
            /\ hist'.pending.laterHanded = hist.pending.laterHanded]_vars

\* A code was captured and not read, its timer has fired, and the one
\* getPendingAuthCode call since has returned undefined without setting the
\* exchange flag.
C34_Witness ==
    /\ hist.pending.captured /\ ~Falsy(hist.pending.cap.code)
    /\ hist.pending.expired /\ codeTimers = << >>
    /\ hist.pending.reads = 1 /\ hist.pending.firstRet = UndefinedResult
    /\ ~_isExchangingCode

(***************************************************************************)
(* The callback server with the onRequest option.  handleRequest calls the *)
(* hook first, outside any try block: a hook that throws ends              *)
(* handleRequest before the listener is looked up, and the runtime's       *)
(* request handler answers 500.                                            *)
(***************************************************************************)
Hooks == {"none", "returns", "throws"}

InternalServerError == [status |-> 500, type |-> "none", body |-> "Internal Server Error"]

\* handleRequest when `this.onRequest?.(request)` throws.
srvOnRequestThrows ==
    /\ server = "listening"
    /\ NoMicrotask
    /\ response' = InternalServerError
    /\ UNCHANGED <<callbackListeners, server, signal, abortHandler, call, first>>

srvHandleRequestHooked(p, q, h) ==
    IF h = "throws" THEN srvOnRequestThrows ELSE srvHandleRequest(p, q)

handleRequestHooked(p, q, h) == srvHandleRequestHooked(p, q, h) /\ UNCHANGED otherVars

NextHook ==
    \/ \E sig \in {"none", "idle", "aborted"}, bound \in BOOLEAN : start(sig, bound)
    \/ \E i \in CallIds, p \in Paths : waitForCallback(i, p)
    \/ \E p \in Paths, q \in ServerQueries, h \in Hooks : handleRequestHooked(p, q, h)
    \/ \E i \in CallIds : timerFires(i)
    \/ \E i \in CallIds : waitForCallbackFinally(i)
    \/ stop
    \/ stopServerDone
    \/ abort

SpecHook == Init /\ [][NextHook]_vars

(* C35: the onRequest hook cannot block or alter the handling of a         *)
(* request.  Whatever the hook does, a request for a path with a listener  *)
(* resolves that listener with the query parameters and is answered with   *)
(* the 200 page, and a request for a path without one is answered 404.     *)
C35_HookCannotAlter ==
    [][\A p \in Paths, q \in ServerQueries, h \in Hooks :
          handleRequestHooked(p, q, h) =>
              LET j == callbackListeners[p] IN
                IF j = NoCall
                  THEN response' = NotFound /\ UNCHANGED call
                  ELSE /\ call' = [call EXCEPT ![j] = Settle(@, Resolved(q))]
                       /\ response' = CallbackPage(q)]_vars

(***************************************************************************)
(* The token side with tokens whose expires_in is 0, positive or absent.   *)
(***************************************************************************)
ExpiryTokenInputs ==
    { MkTokens("at1", "rt1", Num(90), "read"),
      MkTokens("at4", "rt4", Num(0), "read"),
      MkTokens("at3", Absent, NoNumber, Absent) }

InitExpiry == InitServer /\ InitProvider(Absent, FALSE, EmptyStore)

NextExpiry ==
    \/ \E t \in TokensIds : tokensCall(t)
    \/ loadTokens
    \/ \E t \in TokensIds : tokensEnsured(t)
    \/ \E t \in TokensIds : tokensChecked(t)
    \/ \E t \in TokensIds : doRefreshTokens(t)
    \/ \E t \in TokensIds : refreshFinally(t)
    \/ \E t \in TokensIds : refreshAwaited(t)
    \/ \E tokens \in ExpiryTokenInputs : saveTokens(tokens)
    \/ tick

SpecExpiry == InitExpiry /\ [][NextExpiry]_vars

(* C36: saveTokens stores expiresAt = time of the save + expires_in * 1000 *)
(* for every token that carries an expires_in, 0 included, and stores no   *)
(* expiry only for a token without expires_in.                             *)
C36_ExpiryFromSaveTime ==
    [][\A tokens \in ExpiryTokenInputs :
          saveTokens(tokens) =>
              store'.tokens[StoreKey].expiresAt =
                  IF tokens.expires_in = NoNumber
                    THEN NoNumber
                    ELSE Num(now + tokens.expires_in[1] * 1000)]_vars

(* C37: once a waitForCallback call has settled by a delivered callback or *)
(* by stop or abort, its timeout timer is no longer armed.                 *)
C37_TimerDisarmed ==
    \A i \in CallIds :
        (call[i].st \in {"settled", "done"} /\ call[i].outcome # TimeoutError) =>
            ~call[i].timer

(***************************************************************************)
(* fileStore: set and delete read the whole file, change one key of the    *)
(* object read, and write the whole object back; the read and the write    *)
(* are awaited, so that operations interleave between them.  store.tokens  *)
(* is the content of the file.                                             *)
(***************************************************************************)
FileTokens == { MkStored("at1", "rt1", Num(StartMs + 90000), "read") }

\* set(key, tokens) is called: readStore awaits fs.readFile.
fileSet(o, key, tokens) ==
    /\ fsOps[o].pc = "idle"
    /\ fsOps' = [fsOps EXCEPT ![o] = [IdleFileOp EXCEPT !.pc = "reading", !.kind = "set",
                                                        !.key = key, !.tokens = tokens]]
    /\ UNCHANGED <<serverVars, authVars, cfgVars, credVars, loadVars, codeVars,
                   tokensCallVars, redirectVars, store, now, hist>>

\* delete(key) is called: readStore awaits fs.readFile.
fileDelete(o, key) ==
    /\ fsOps[o].pc = "idle"
    /\ fsOps' = [fsOps EXCEPT ![o] = [IdleFileOp EXCEPT !.pc = "reading", !.kind = "delete",
                                                        !.key = key]]
    /\ UNCHANGED <<serverVars, authVars, cfgVars, credVars, loadVars, codeVars,
                   tokensCallVars, redirectVars, store, now, hist>>

\* readStore returns the content of the file; the operation changes its key
\* in the object and calls writeStore, which awaits fs.mkdir and fs.writeFile.
fileRead(o) ==
    /\ fsOps[o].pc = "reading"
    /\ fsOps' = [fsOps EXCEPT ![o] =
                    [@ EXCEPT !.pc = "writing",
                              !.data = [store.tokens EXCEPT ![fsOps[o].key] =
                                          IF fsOps[o].kind = "set" THEN fsOps[o].tokens
                                                                   ELSE NullTokens]]]
    /\ UNCHANGED <<serverVars, authVars, cfgVars, credVars, loadVars, codeVars,
                   tokensCallVars, redirectVars, store, now, hist>>

\* fs.writeFile replaces the content of the file by the operation's object;
\* the operation is over.
fileWrite(o) ==
    /\ fsOps[o].pc = "writing"
    /\ store' = [store EXCEPT !.tokens = fsOps[o].data]
    /\ fsOps' = [fsOps EXCEPT ![o].pc = "done"]
    /\ UNCHANGED <<serverVars, authVars, cfgVars, credVars, loadVars, codeVars,
                   tokensCallVars, redirectVars, now, hist>>

InitFile ==
    /\ InitServer
    /\ \E st \in {EmptyStore, EarlierStore(FALSE), SharedStore} : InitProvider(Absent, FALSE, st)

NextFile ==
    \/ \E o \in FileOpIds, key \in StoreKeys, tokens \in FileTokens : fileSet(o, key, tokens)
    \/ \E o \in FileOpIds, key \in StoreKeys : fileDelete(o, key)
    \/ \E o \in FileOpIds : fileRead(o)
    \/ \E o \in FileOpIds : fileWrite(o)

SpecFile == InitFile /\ [][NextFile]_vars

(* C38: two set or delete operations of a fileStore on different keys both *)
(* take effect, whether or not they overlap: when both are over the file   *)
(* holds the tokens a set has written under its key and nothing under the  *)
(* key of a delete.                                                        *)
C38_NoLostUpdate ==
    \A o1, o2 \in FileOpIds :
        (fsOps[o1].pc = "done" /\ fsOps[o2].pc = "done" /\ fsOps[o1].key # fsOps[o2].key) =>
            store.tokens[fsOps[o1].key] =
                IF fsOps[o1].kind = "set" THEN fsOps[o1].tokens ELSE NullTokens

(***************************************************************************)
(* The lazy load over a store that holds the state of an earlier run and   *)
(* whose reads can fail, with the tokens() calls that wait for it.         *)
(***************************************************************************)
InitLoad ==
    /\ InitServer
    /\ \E ext \in BOOLEAN : InitProvider(Absent, ext, EarlierStore(ext))

NextLoad ==
    \/ \E t \in TokensIds : tokensCall(t)
    \/ loadTokens
    \/ loadClient
    \/ loadSession
    \/ loadFailed
    \/ \E t \in TokensIds : tokensEnsured(t)
    \/ \E t \in TokensIds : tokensChecked(t)
    \/ \E t \in TokensIds : doRefreshTokens(t)
    \/ \E t \in TokensIds : refreshFinally(t)
    \/ \E t \in TokensIds : refreshAwaited(t)
    \/ tick

SpecLoad == InitLoad /\ [][NextLoad]_vars

(* C39: a store failure during the lazy load is swallowed.  The failure    *)
(* marks the load done; after it the provider holds no tokens, no client   *)
(* and no verifier, as if nothing had been stored; tokens() calls return   *)
(* undefined and do not reject; and a later tokens() call starts no load.  *)
C39_LoadFailureSwallowed ==
    /\ [][loadFailed => (_tokensLoaded' /\ _loadingTokens'.pc = "done")]_vars
    /\ [](hist.loadFailed =>
            /\ _tokens = NoTokens /\ _clientInfo = NoClient /\ _codeVerifier = Absent
            /\ \A t \in TokensIds : tk[t].pc = "done" => tk[t].out = UndefinedResult)
    /\ [][\A t \in TokensIds :
            (tokensCall(t) /\ hist.loadFailed) => UNCHANGED <<_loadingTokens, _tokensLoaded>>]_vars

(***************************************************************************)
(* Registered clients whose secret expires: client_secret_expires_at is in *)
(* seconds, 0 for a secret that does not expire.  The provider holds them  *)
(* in memory, over a TokenStore.                                           *)
(***************************************************************************)
MkClientFull(id, secret, expiresAt) ==
    [client_id |-> id, client_secret |-> secret, client_secret_expires_at |-> expiresAt]

ExpiringClientInputs ==
    { MkClientFull("dyn1", "sec1", Num(StartMs \div 1000 + 15)),
      MkClientFull("dyn2", "sec2", Num(0)),
      MkClientFull("dyn3", "sec3", NoNumber) }

NextClient ==
    \/ \E c \in ExpiringClientInputs : saveClientInformation(c)
    \/ \E v \in Verifiers : saveCodeVerifier(v)
    \/ \E tokens \in ExchangeTokenInputs : saveTokens(tokens)
    \/ \E scope \in Scopes : invalidateCredentials(scope)
    \/ tick

SpecClient == InitExpiry /\ [][NextClient]_vars

\* The secret of registered client c has expired at time t (in ms).
SecretExpired(c, t) ==
    /\ TruthyNum(c.client_secret_expires_at)
    /\ t >= c.client_secret_expires_at[1] * 1000

(* C40: clientInformation() does not return a registered client whose      *)
(* client_secret_expires_at has passed.                                    *)
C40_ExpiredClientNotReturned ==
    (_clientInfo # NoClient /\ SecretExpired(_clientInfo, now)) =>
        clientInformation = NoClient

====
